---- MODULE Spec2Model ----
(***************************************************************************)
(* Model of the comment-analysis page of the live-stream chat analysis     *)
(* tool (src/app.py, show_comment_analysis_page) together with the batch   *)
(* classification job it drives.                                           *)
(*                                                                         *)
(* A Streamlit script run ("pass") is one action up to the point where the *)
(* classification job starts.  A run is stopped, when the operator touches *)
(* a widget again, at its next call of st or access to st.session_state:   *)
(* the action leaves the session either as the whole run does or as it is  *)
(* before any one of the run's assignments.  The job itself advances one   *)
(* polling point at a time so that a cancellation request and a process    *)
(* kill can fall between two records, and between the truncating open()    *)
(* and the end of pickle.dump() of a checkpoint save; what the page does    *)
(* once the job has returned is a step of its own.                         *)
(*                                                                         *)
(* utils/ai_analyzer.py (analyze_all_comments) is not part of the sources  *)
(* at hand: the job loop is modelled from the specification, section 4.3,  *)
(* with a checkpoint after every record.  All it does with the session and *)
(* the disk goes through the three callbacks app.py hands to it.           *)
(*                                                                         *)
(* Any widget the operator touches while a job runs (the uploader, the      *)
(* company selection, one of the buttons, a widget of the sidebar) stops   *)
(* the script run that holds the job where the job next reports its        *)
(* progress, and the page runs again from the top.  The flag               *)
(* analysis_cancelled is therefore set by "分析を中断" in a pass of its own  *)
(* and not under the running job.                                          *)
(***************************************************************************)
EXTENDS Naturals, Integers, Sequences, FiniteSets, TLC

----------------------------------------------------------------------------
(* Bounds *)

\* greatest number of usable comment rows in an uploaded file
MaxRows == 3

\* number of checkpoint file names of the temp directory
MaxPaths == 3

\* tokens charged for one successful classification call
PromptPerCall == 2
CompletionPerCall == 1

\* modification times drawn for the checkpoint files of the discovery check
MaxMtime == 2

\* greatest number of script runs of one session that are stopped before
\* their end
MaxStops == 1

----------------------------------------------------------------------------
(* Values *)

None == 0

Paths == 1..MaxPaths

Schemas == {"inserted_at", "elapsed_time"}

NoFile == [schema |-> "none", cols_ok |-> FALSE, rows |-> 0]

\* The files the operator can drop on the uploader: a well-formed file of
\* MaxRows usable rows and one of a single row, of different schemas, for
\* each schema a well-formed file with no usable row, and a file that lacks
\* a required column.
UploadFiles ==
    {[schema |-> "inserted_at", cols_ok |-> TRUE, rows |-> MaxRows],
     [schema |-> "elapsed_time", cols_ok |-> TRUE, rows |-> 1],
     [schema |-> "inserted_at", cols_ok |-> TRUE, rows |-> 0],
     [schema |-> "elapsed_time", cols_ok |-> TRUE, rows |-> 0],
     [schema |-> "inserted_at", cols_ok |-> FALSE, rows |-> 1]}

Companies == {"companyA", "companyB"}

DEFAULT_COMPANY == "companyA"

\* A data frame is a sequence of rows; a row names the file it came from,
\* its position, and its category ("none" until classified).
RawRows(f) == [i \in 1..f.rows |-> [src |-> f, idx |-> i, cat |-> "none"]]

NoDF == [present |-> FALSE, rows |-> <<>>]

DF(rows) == [present |-> TRUE, rows |-> rows]

ZeroUsage == [prompt_tokens |-> 0, completion_tokens |-> 0, total_tokens |-> 0]

AbsentBlob == [kind |-> "absent", recs |-> <<>>]

CorruptBlob == [kind |-> "corrupt", recs |-> <<>>]

ListBlob(recs) == [kind |-> "list", recs |-> recs]

Buttons == {"resume", "restart", "start", "cancel"}

----------------------------------------------------------------------------
VARIABLES
    session_state,   \* st.session_state of the operator's session
    uploaded_file,   \* the file held by the st.file_uploader widget
    company_widget,  \* the value of the company selectbox
    buttons,         \* the buttons rendered by the last pass
    pending_rerun,   \* st.rerun() was called: a pass follows at once
    files,           \* analysis_save_*.pkl files of the temp directory
    mtime,           \* their modification times
    pc,              \* "idle", or the position of the running job
    job,             \* locals of the pass that runs the job
    job_state,       \* state of the job: IDLE, RUNNING, COMPLETED, ...
    save_prev,       \* history: blob a save in progress is replacing
    stops,           \* history: script runs of the session stopped before their end
    call,            \* a helper function called on its own: arguments, result
    key_state        \* the API key: module cache, environment, session, browser

vars == <<session_state, uploaded_file, company_widget, buttons, pending_rerun,
          files, mtime, pc, job, job_state, save_prev, stops, call, key_state>>

----------------------------------------------------------------------------
(* Session state *)

InitSession ==
    [processed_data |-> NoDF,
     analysis_complete |-> FALSE,
     analysis_save_path |-> None,
     analysis_original_df |-> NoDF,
     analysis_cancelled |-> FALSE,
     analysis_resume |-> FALSE,
     csv_completed_data |-> FALSE,
     stats_data |-> FALSE,
     question_stats_data |-> FALSE,
     question_df_data |-> FALSE,
     api_usage |-> ZeroUsage,
     selected_company |-> DEFAULT_COMPANY]

\* no helper function is under examination
NoCall == [fn |-> "none"]

\* an API key that is not there (None, or the empty string)
NoKey == [name |-> "none", sk |-> FALSE, len |-> 0]

\* the browser's local storage holds no item under the key's name
NoItem == [kind |-> "none", key |-> NoKey]

\* no submit of a key is under way
NoSubmit == [api_key |-> NoKey, at |-> "none"]

\* a process and a session in which no API key was ever seen
\* no call of get_active_api_key is under way
NoGet == [stored_key |-> NoKey, at |-> "none"]

NoKeys ==
    [cached_api_key |-> NoKey, env_key |-> NoKey, user_api_key |-> NoKey,
     storage |-> NoItem, returned |-> NoKey, op |-> "start",
     submitting |-> NoSubmit, getting |-> NoGet]

NoJob ==
    [df |-> <<>>, results |-> <<>>, usage |-> ZeroUsage,
     start_analysis |-> FALSE, minted |-> FALSE, loaded_count |-> 0,
     calls |-> 0]

----------------------------------------------------------------------------
(* CSV ingestion *)

\* a load that accepts every file
LoadUpload_Unvalidated(f) == [ok |-> TRUE, rows |-> RawRows(f)]

\* load_csv / validate_and_process_data / load_csv_with_elapsed_time as
\* called from the upload branch: the rows of the data frame, or an error.
\* A file with an elapsed_time column goes through
\* load_csv_with_elapsed_time, which returns an empty frame unchanged; when
\* that raises, the fallback load_csv raises as well.  Any other file goes
\* through load_csv and validate_and_process_data, which rejects an empty
\* frame.
LoadUpload(f) ==
    IF ~f.cols_ok THEN [ok |-> FALSE, rows |-> <<>>]
    ELSE IF f.schema = "elapsed_time" THEN [ok |-> TRUE, rows |-> RawRows(f)]
    ELSE IF f.rows = 0 THEN [ok |-> FALSE, rows |-> <<>>]
    ELSE [ok |-> TRUE, rows |-> RawRows(f)]

----------------------------------------------------------------------------
(* Checkpoint store *)

Exists(fs, p) == p # None /\ fs[p].kind # "absent"

SetMax(S) == CHOOSE x \in S : \A y \in S : y <= x

\* a modification time later than that of every other checkpoint file
NextMtime(fs, mt, p) ==
    LET others == {mt[q] : q \in {r \in Paths : r # p /\ Exists(fs, r)}}
    IN  IF others = {} THEN 1 ELSE SetMax(others) + 1

\* the search keeps the oldest file
LatestFiles_Oldest(fs, mt) ==
    LET save_files == {p \in Paths : Exists(fs, p)}
    IN  {p \in save_files : \A q \in save_files : mt[p] <= mt[q]}

\* max(save_files, key=os.path.getmtime) over glob's listing: the files
\* whose modification time is greatest (glob's order decides between equal
\* times).
LatestFiles(fs, mt) ==
    LET save_files == {p \in Paths : Exists(fs, p)}
    IN  {p \in save_files : \A q \in save_files : mt[q] <= mt[p]}

\* the path the session holds after the search for a save file
DiscoverPath(path, latest) ==
    IF path = None THEN latest ELSE path

DiscoverChoices(path, fs, mt) ==
    IF path = None /\ LatestFiles(fs, mt) # {} THEN LatestFiles(fs, mt) ELSE {None}

\* the object pickle.dump writes for save_intermediate_results("save", results)
SaveBlob(results) == ListBlob(results)

\* open(save_path, 'wb'): the file exists and is empty
OpenForWrite(fs, p) == [fs EXCEPT ![p] = CorruptBlob]

\* pickle.dump(results, f) has run to its end
DumpDone(fs, p, results) == [fs EXCEPT ![p] = SaveBlob(results)]

\* a load that returns every saved record twice
LoadCheckpoint_Doubled(fs, p) ==
    IF p # None /\ Exists(fs, p) /\ fs[p].kind = "list"
    THEN [found |-> TRUE, recs |-> fs[p].recs \o fs[p].recs]
    ELSE [found |-> FALSE, recs |-> <<>>]

\* a load that never returns the saved results
LoadCheckpoint_Lost(fs, p) == [found |-> FALSE, recs |-> <<>>]

\* save_intermediate_results("load"): the unpickled object, or nothing
LoadCheckpoint(fs, p) ==
    IF p # None /\ Exists(fs, p) /\ fs[p].kind = "list"
    THEN [found |-> TRUE, recs |-> fs[p].recs]
    ELSE [found |-> FALSE, recs |-> <<>>]

\* a removal that leaves the file where it is
OsRemove_Keeps(fs, p) == [files |-> fs, raised |-> FALSE]

\* os.remove: raises when the file does not exist
OsRemove(fs, p) ==
    IF Exists(fs, p)
    THEN [files |-> [fs EXCEPT ![p] = AbsentBlob], raised |-> FALSE]
    ELSE [files |-> fs, raised |-> TRUE]

\* a clear without the guards and without the try
ClearCheckpoint_Unguarded(fs, p) == OsRemove(fs, p)

\* save_intermediate_results("clear"), and the removal done by the restart
\* button: guarded by the path and by os.path.exists, errors swallowed
ClearCheckpoint(fs, p) ==
    IF p # None /\ Exists(fs, p)
    THEN [files |-> OsRemove(fs, p).files, raised |-> FALSE]
    ELSE [files |-> fs, raised |-> FALSE]

\* a count that takes an unreadable file for one saved record
SavedCount_Unreadable(fs, p) ==
    IF p # None /\ Exists(fs, p)
    THEN (IF fs[p].kind = "list" THEN Len(fs[p].recs) ELSE 1)
    ELSE 0

\* the count shown with the resume offer: the length of the saved list
SavedCount(fs, p) ==
    IF p # None /\ Exists(fs, p) /\ fs[p].kind = "list" THEN Len(fs[p].recs) ELSE 0

ResumeAvailable(fs, p) == SavedCount(fs, p) > 0

\* check_cancel
check_cancel(ss) == ss.analysis_cancelled

----------------------------------------------------------------------------
(* One script run of show_comment_analysis_page, up to the start of the job *)

\* What a script run has done so far: the session, the temp directory, the
\* buttons it has rendered, and how it ended (st.rerun(), a job started).
Outcome(ss, fs, btns, rerun, restart) ==
    [ss |-> ss, files |-> fs, buttons |-> btns, rerun |-> rerun,
     restart |-> restart, start |-> FALSE, df |-> <<>>,
     start_analysis |-> FALSE, minted |-> FALSE]

\* the stage a run is at after the given stages, which follow stage o
LastStage(o, stages) == IF stages = <<>> THEN o ELSE stages[Len(stages)]

\* st.session_state.<field> = value
Assign(o, field, value) == [o EXCEPT !.ss = [@ EXCEPT ![field] = value]]

RECURSIVE Assigns(_, _)
\* assignments to the session, one after the other: the stage after each
Assigns(o, writes) ==
    IF writes = <<>> THEN <<>>
    ELSE LET o1 == Assign(o, Head(writes)[1], Head(writes)[2])
         IN  <<o1>> \o Assigns(o1, Tail(writes))

\* st.button(...): the button is on the page
Rendered(o, btn) == [o EXCEPT !.buttons = @ \cup {btn}]

\* st.rerun() ends the run at its last stage
EndRerun(stages) ==
    [k \in 1..Len(stages) |->
        IF k = Len(stages) THEN [stages[k] EXCEPT !.rerun = TRUE] ELSE stages[k]]

\* the upload branch over a file that loads: processed_data, then
\* analysis_complete
UploadBranch(o, f) ==
    IF f = NoFile \/ ~LoadUpload(f).ok THEN <<>>
    ELSE Assigns(o, <<<<"processed_data", DF(LoadUpload(f).rows)>>,
                      <<"analysis_complete", FALSE>>>>)

\* the company selection branch: six assignments when the selectbox holds
\* another company than the session
CompanyBranch(o, company) ==
    IF company # o.ss.selected_company
    THEN Assigns(o, <<<<"selected_company", company>>,
                      <<"analysis_complete", FALSE>>,
                      <<"stats_data", FALSE>>,
                      <<"question_stats_data", FALSE>>,
                      <<"question_df_data", FALSE>>,
                      <<"csv_completed_data", FALSE>>>>)
    ELSE <<>>

\* the frame is one that was not classified: it has no column
\* "チャットの属性", and extract_questions raises KeyError on it
ExtractFails(rows) == \E k \in 1..Len(rows) : rows[k].cat = "none"

\* generate_completed_csv raises on a frame that was not classified and has
\* no column "配信時間" of its own (it is then built from inserted_at and
\* the selection of the five output columns fails)
GenerateFails(rows) ==
    \E k \in 1..Len(rows) :
        rows[k].cat = "none" /\ rows[k].src.schema = "inserted_at"

\* the data output section: the statistics are computed when stats_data is
\* None (the script run ends in an exception when that fails, and when the
\* questions are None where their number is shown); the report is generated
\* when there is none, a failure of which is reported and leaves it None
OutputSection(o) ==
    IF o.ss.analysis_complete /\ o.ss.processed_data.present
    THEN LET rows == o.ss.processed_data.rows
             stats == IF o.ss.stats_data \/ ExtractFails(rows) THEN <<>>
                      ELSE Assigns(o, <<<<"stats_data", TRUE>>,
                                        <<"question_stats_data", TRUE>>,
                                        <<"question_df_data", TRUE>>>>)
             o1 == LastStage(o, stats)
             raised == ~o1.ss.stats_data \/ ~o1.ss.question_df_data
         IN  stats \o
             (IF raised \/ o1.ss.csv_completed_data \/ GenerateFails(rows)
              THEN <<>>
              ELSE <<Assign(o1, "csv_completed_data", TRUE)>>)
    ELSE <<>>

\* the checkpoint path of the job: minted from the current time when the
\* session holds none.  The search for a save file has run before in the
\* same script run, so no save file exists when a path is minted; the new
\* name is one that names no file.
JobPath(path, fs) ==
    IF path = None
    THEN CHOOSE p \in Paths : ~Exists(fs, p) /\ \A q \in Paths : ~Exists(fs, q) => p <= q
    ELSE path

\* the data frame handed to analyze_all_comments
JobInput(ss, df) ==
    IF ~ss.analysis_original_df.present THEN df ELSE ss.analysis_original_df.rows

\* the start of the analysis, the API key being there: the flag is reset,
\* the counters are reset when "分析を開始" was pressed, a path is minted when
\* the session holds none, the original data frame is kept when none is,
\* and the job is called
JobStart(o, df, start_analysis) ==
    LET a == Assign(o, "analysis_cancelled", FALSE)
        reset == IF start_analysis
                 THEN <<Assign(a, "api_usage", ZeroUsage)>> ELSE <<>>
        o1 == LastStage(a, reset)
        minted == o1.ss.analysis_save_path = None
        mint == IF minted
                THEN <<Assign(o1, "analysis_save_path", JobPath(None, o1.files))>>
                ELSE <<>>
        o2 == LastStage(o1, mint)
        keep == IF ~o2.ss.analysis_original_df.present
                THEN <<Assign(o2, "analysis_original_df", DF(df))>> ELSE <<>>
        o3 == LastStage(o2, keep)
    IN  <<a>> \o reset \o mint \o keep \o
        <<[o3 EXCEPT !.start = TRUE,
                     !.df = JobInput(o2.ss, df),
                     !.start_analysis = start_analysis,
                     !.minted = minted]>>

\* the start and cancel buttons, and what follows a press of either
StartSection(o, df, btn, keyOk) ==
    LET s1 == Rendered(o, "start")
        s2 == Rendered(s1, "cancel")
        \* "分析を中断"
        cancel == IF btn = "cancel"
                  THEN <<Assign(s2, "analysis_cancelled", TRUE)>> ELSE <<>>
        o1 == LastStage(s2, cancel)
        start_analysis == (btn = "start")
    IN  <<s1, s2>> \o cancel \o
        (IF (start_analysis \/ o1.ss.analysis_resume) /\ keyOk
         THEN JobStart(o1, df, start_analysis)
         ELSE \* nothing to start, or the API key pre-check fails: return
              <<>>)

\* the resume offer: "続きから再開" and, when that was not pressed,
\* "最初から開始"
ResumeOffer(o, df, btn, keyOk) ==
    LET r1 == Rendered(o, "resume")
    IN  IF btn = "resume"
        THEN LET a == Assign(r1, "analysis_resume", TRUE)
                 \* analysis_original_df is read, and assigned when it is
                 \* None: the run can be stopped at the read, before
                 \* st.rerun()
                 keep == IF ~a.ss.analysis_original_df.present
                         THEN Assign(a, "analysis_original_df", DF(df))
                         ELSE a
             IN  EndRerun(<<r1, a, keep>>)
        ELSE LET r2 == Rendered(r1, "restart")
             IN  IF btn = "restart"
                 THEN LET removed ==
                              [r2 EXCEPT
                                  !.files = ClearCheckpoint(
                                      @, r2.ss.analysis_save_path).files,
                                  !.restart = TRUE]
                      IN  EndRerun(<<r1, r2, removed>> \o
                                   Assigns(removed,
                                           <<<<"analysis_resume", FALSE>>,
                                             <<"analysis_save_path", None>>,
                                             <<"analysis_original_df", NoDF>>>>))
                 ELSE <<r1, r2>> \o StartSection(r2, df, btn, keyOk)

\* the AI analysis section: the search for a save file, the resume offer
\* when the file of the path holds saved results, the start section
AnalysisSection(o, latest, btn, keyOk) ==
    LET df == o.ss.processed_data.rows
        found == DiscoverPath(o.ss.analysis_save_path, latest)
        search == IF found # o.ss.analysis_save_path
                  THEN <<Assign(o, "analysis_save_path", found)>> ELSE <<>>
        o1 == LastStage(o, search)
    IN  search \o
        (IF ResumeAvailable(o1.files, o1.ss.analysis_save_path)
         THEN ResumeOffer(o1, df, btn, keyOk)
         ELSE StartSection(o1, df, btn, keyOk))

\* The whole script run, as the stages it goes through: the state it starts
\* from, then the state after each assignment to the session, each removal
\* of a file and each button rendered.  The last stage is where the run
\* ends when nothing stops it.
Stages(ss, fs, f, company, latest, btn, keyOk) ==
    LET o == Outcome(ss, fs, {}, FALSE, FALSE)
    IN  IF f # NoFile /\ ~LoadUpload(f).ok
        THEN \* st.error(...); return
             <<o>>
        ELSE LET upload == UploadBranch(o, f)
                 o1 == LastStage(o, upload)
                 select == CompanyBranch(o1, company)
                 o2 == LastStage(o1, select)
             IN  <<o>> \o upload \o select \o
                 (IF o2.ss.processed_data.present /\ ~o2.ss.analysis_complete
                  THEN AnalysisSection(o2, latest, btn, keyOk)
                  ELSE OutputSection(o2))

\* the script run when nothing stops it
ScriptResult(ss, fs, f, company, latest, btn, keyOk) ==
    LastStage(Outcome(ss, fs, {}, FALSE, FALSE),
              Stages(ss, fs, f, company, latest, btn, keyOk))

\* A script run triggered by the operator.  Every call of st and every
\* access to st.session_state is a point where the run is stopped when the
\* operator has touched a widget again: the run then ends at one of its
\* stages before the last, with the buttons of the run before it still on
\* the page.  (halted: the state of the job when the run starts none)
RunScript(f, company, btn, keyOk, halted) ==
    \E latest \in DiscoverChoices(session_state.analysis_save_path, files, mtime) :
        \E stages \in {Stages(session_state, files, f, company, latest, btn,
                              keyOk)} :
            \E k \in 1..Len(stages) :
                \E o \in {stages[k]} :
                    /\ k < Len(stages) => stops < MaxStops
                    /\ stops' = IF k < Len(stages) THEN stops + 1 ELSE stops
                    /\ session_state' = o.ss
                    /\ files' = o.files
                    /\ uploaded_file' = f
                    /\ company_widget' = company
                    /\ buttons' = IF k < Len(stages)
                                  THEN buttons \cup o.buttons ELSE o.buttons
                    /\ pending_rerun' = o.rerun
                    /\ pc' = IF o.start THEN "entry" ELSE "idle"
                    /\ job' = IF o.start
                              THEN [NoJob EXCEPT !.df = o.df,
                                                 !.start_analysis = o.start_analysis,
                                                 !.minted = o.minted]
                              ELSE NoJob
                    /\ job_state' = IF o.start THEN "RUNNING"
                                    ELSE IF o.restart THEN "IDLE" ELSE halted
                    /\ UNCHANGED <<mtime, save_prev, call, key_state>>

\* the page takes the operator's input: no job runs, or the job is at a
\* point where it reports its progress (update_progress calls st.progress;
\* save_intermediate_results reads st.session_state before it opens the
\* file and not after, so a save in progress is finished first)
Interactive == pc \in {"idle", "entry", "running"}

\* the state of the job when the pass that btn triggers starts none: a job
\* under way is abandoned, what it held in memory is gone
Halts(btn) ==
    IF pc = "idle" THEN job_state
    ELSE IF btn = "cancel" THEN "CANCELLED" ELSE "INTERRUPTED"

\* a file is dropped on the uploader, or removed from it
Upload(f) ==
    /\ Interactive /\ ~pending_rerun
    /\ f # uploaded_file
    /\ \E keyOk \in BOOLEAN :
           RunScript(f, company_widget, "none", keyOk, Halts("none"))

\* another company is selected; the selectbox is on the page when the
\* upload branch of the last pass did not return
SelectCompany(c) ==
    /\ Interactive /\ ~pending_rerun
    /\ uploaded_file = NoFile \/ LoadUpload(uploaded_file).ok
    /\ c # company_widget
    /\ \E keyOk \in BOOLEAN :
           RunScript(uploaded_file, c, "none", keyOk, Halts("none"))

\* one of the buttons on the page is pressed.  "分析を中断" pressed while the
\* job runs sets the flag in the new pass, which, when analysis_resume is
\* still true, resets it and calls the job again.
Press(btn, keyOk) ==
    /\ Interactive /\ ~pending_rerun
    /\ btn \in buttons
    /\ RunScript(uploaded_file, company_widget, btn, keyOk, Halts(btn))

\* a rerun without a button: st.rerun(), or any other widget of the page
Rerun(keyOk) ==
    /\ Interactive
    /\ RunScript(uploaded_file, company_widget, "none", keyOk, Halts("none"))

----------------------------------------------------------------------------
(* The classification job: analyze_all_comments and what follows its return *)

RECURSIVE SortByIdx(_)
\* the result set merged back into the order of sequence_index
SortByIdx(rows) ==
    IF rows = <<>> THEN <<>>
    ELSE LET k == CHOOSE i \in 1..Len(rows) :
                      \A j \in 1..Len(rows) :
                          rows[i].idx < rows[j].idx \/ (rows[i].idx = rows[j].idx /\ i <= j)
             rest == [j \in 1..(Len(rows) - 1) |-> IF j < k THEN rows[j] ELSE rows[j + 1]]
         IN  <<rows[k]>> \o SortByIdx(rest)

\* the first comment record, by sequence_index, absent from the result set
NextIndex(df, results) ==
    LET done == {results[k].idx : k \in 1..Len(results)}
        todo == {i \in 1..Len(df) : i \notin done}
    IN  IF todo = {} THEN None ELSE CHOOSE i \in todo : \A j \in todo : i <= j

\* the record built from the response of the provider to one call
Classified(row) == [row EXCEPT !.cat = "classified"]

\* the usage after one call
AddUsage(u) ==
    [prompt_tokens |-> u.prompt_tokens + PromptPerCall,
     completion_tokens |-> u.completion_tokens + CompletionPerCall,
     total_tokens |-> u.total_tokens + PromptPerCall + CompletionPerCall]

\* the usage a resumed job starts from: the blob written by
\* save_intermediate_results holds the results only
LoadedUsage(recs) == ZeroUsage

\* what analyze_all_comments returns: the classified frame in the order of
\* the input, and the usage counters
AnalysisResult(results, usage) ==
    [df |-> SortByIdx(results), api_usage |-> usage, has_usage |-> TRUE]

\* the counters written to the session from the usage the analysis returned:
\* each of the three is copied from the key of the same name
StoredUsage(api_usage_info) ==
    [prompt_tokens |-> api_usage_info.prompt_tokens,
     completion_tokens |-> api_usage_info.completion_tokens,
     total_tokens |-> api_usage_info.total_tokens]

\* The script run after analyze_all_comments returned: five assignments,
\* the counters when the result carries a usage, the report (a failure is
\* swallowed), the three statistics (a failure ends the run at the error),
\* and on to the data output section
AfterAnalysis(o, analysis_result) ==
    LET analyzed_df == analysis_result.df
        done == Assigns(o, <<<<"processed_data", DF(analyzed_df)>>,
                             <<"analysis_complete", TRUE>>,
                             <<"analysis_resume", FALSE>>,
                             <<"analysis_original_df", NoDF>>,
                             <<"analysis_cancelled", FALSE>>>>)
        o1 == LastStage(o, done)
        usage == IF analysis_result.has_usage
                 THEN <<Assign(o1, "api_usage",
                               StoredUsage(analysis_result.api_usage))>>
                 ELSE <<>>
        o2 == LastStage(o1, usage)
        csv == IF GenerateFails(analyzed_df) THEN <<>>
               ELSE <<Assign(o2, "csv_completed_data", TRUE)>>
        o3 == LastStage(o2, csv)
        stats == IF ExtractFails(analyzed_df) THEN <<>>
                 ELSE Assigns(o3, <<<<"stats_data", TRUE>>,
                                    <<"question_stats_data", TRUE>>,
                                    <<"question_df_data", TRUE>>>>)
        o4 == LastStage(o3, stats)
    IN  done \o usage \o csv \o stats \o
        (IF ExtractFails(analyzed_df) THEN <<>> ELSE OutputSection(o4))

\* the script run after the job raised its interruption error: the flag is
\* set, the interruption is reported, the flag is cleared, st.rerun()
AfterCancelled(o) ==
    EndRerun(Assigns(o, <<<<"analysis_cancelled", TRUE>>,
                          <<"analysis_cancelled", FALSE>>>>))

\* completion of analyze_all_comments: the checkpoint is cleared and the
\* result is returned to the page
Complete(results, usage) ==
    /\ files' = ClearCheckpoint(files, session_state.analysis_save_path).files
    /\ job' = [job EXCEPT !.results = results, !.usage = usage]
    /\ job_state' = "COMPLETED"
    /\ pc' = "returned"
    /\ UNCHANGED <<session_state, uploaded_file, company_widget, buttons,
                   pending_rerun, mtime, save_prev, stops, call, key_state>>

\* The page goes on after analyze_all_comments returned.  The run can be
\* stopped before each of its assignments, as any script run.
AnalysisReturned ==
    /\ pc = "returned"
    /\ \E o0 \in {Outcome(session_state, files, buttons, FALSE, FALSE)} :
        \E stages \in {<<o0>> \o
                       AfterAnalysis(o0, AnalysisResult(job.results, job.usage))} :
            \E k \in 1..Len(stages) :
                /\ k < Len(stages) => stops < MaxStops
                /\ stops' = IF k < Len(stages) THEN stops + 1 ELSE stops
                /\ session_state' = stages[k].ss
                /\ pc' = "idle"
                /\ job' = NoJob
                /\ pending_rerun' = FALSE
                /\ UNCHANGED <<uploaded_file, company_widget, buttons, files,
                               mtime, job_state, save_prev, call, key_state>>

\* update_progress(current, total): the fraction shown by the progress bar,
\* in percent; the division raises ZeroDivisionError when total is 0
update_progress(current, total) ==
    IF total = 0
    THEN [raised |-> TRUE, progress |-> 0]
    ELSE [raised |-> FALSE, progress |-> (current * 100) \div total]

\* an exception other than the interruption leaves analyze_all_comments:
\* the page reports it and returns
AnalysisError ==
    /\ job_state' = "FAILED"
    /\ pc' = "idle"
    /\ pending_rerun' = FALSE
    /\ job' = NoJob
    /\ UNCHANGED <<session_state, uploaded_file, company_widget, buttons, files,
                   mtime, save_prev,
                   stops, call, key_state>>

\* entry of analyze_all_comments.  With no record to classify the job
\* completes at once; whether it reports its progress (0 of 0) before it
\* returns is not fixed by the specification: both are modelled.
JobEntry ==
    /\ pc = "entry"
    /\ LET path == session_state.analysis_save_path
           loaded == LoadCheckpoint(files, path)
       IN  IF Len(job.df) = 0
           THEN \E reported \in BOOLEAN :
                    IF reported /\ update_progress(0, Len(job.df)).raised
                    THEN AnalysisError
                    ELSE Complete(<<>>, ZeroUsage)
           ELSE IF loaded.found /\ Len(loaded.recs) > 0
           THEN /\ job' = [job EXCEPT !.results = loaded.recs,
                                      !.usage = LoadedUsage(loaded.recs),
                                      !.loaded_count = Len(loaded.recs)]
                /\ pc' = "running"
                /\ UNCHANGED <<session_state, uploaded_file, company_widget,
                               buttons, pending_rerun, files, mtime, job_state, save_prev,
                   stops, call, key_state>>
           ELSE /\ job' = [job EXCEPT !.results = <<>>, !.usage = ZeroUsage]
                /\ save_prev' = files[path]
                /\ files' = OpenForWrite(files, path)
                /\ mtime' = [mtime EXCEPT ![path] = NextMtime(files, mtime, path)]
                /\ pc' = "saving"
                /\ UNCHANGED <<session_state, uploaded_file, company_widget,
                               buttons, pending_rerun, job_state,
                   stops, call, key_state>>

\* the polling point sees the cancellation flag: the job raises, the page
\* reports the interruption and reruns
JobCancelled ==
    /\ pc = "running"
    /\ check_cancel(session_state)
    /\ \E o0 \in {Outcome(session_state, files, buttons, FALSE, FALSE)} :
        \E stages \in {<<o0>> \o AfterCancelled(o0)} :
            \E k \in 1..Len(stages) :
                /\ k < Len(stages) => stops < MaxStops
                /\ stops' = IF k < Len(stages) THEN stops + 1 ELSE stops
                /\ session_state' = stages[k].ss
                /\ pending_rerun' = stages[k].rerun
    /\ job_state' = "CANCELLED"
    /\ pc' = "idle"
    /\ job' = NoJob
    /\ UNCHANGED <<uploaded_file, company_widget, buttons, files, mtime, save_prev, call, key_state>>

\* every record is classified
JobComplete ==
    /\ pc = "running"
    /\ ~check_cancel(session_state)
    /\ NextIndex(job.df, job.results) = None
    /\ Complete(job.results, job.usage)

\* the polling point before a record: with the cancellation flag set the
\* job raises; otherwise one record is classified and the save of the
\* checkpoint begins
JobClassify ==
    /\ pc = "running"
    /\ IF check_cancel(session_state)
       THEN JobCancelled
       ELSE /\ NextIndex(job.df, job.results) # None
            /\ LET path == session_state.analysis_save_path
                   row == job.df[NextIndex(job.df, job.results)]
                   u == AddUsage(job.usage)
               IN  /\ job' = [job EXCEPT
                                 !.results = Append(@, Classified(row)),
                                 !.usage = u,
                                 !.calls = @ + 1]
                   /\ save_prev' = files[path]
                   /\ files' = OpenForWrite(files, path)
                   /\ mtime' = [mtime EXCEPT
                                   ![path] = NextMtime(files, mtime, path)]
                   /\ pc' = "saving"
            /\ UNCHANGED <<session_state, uploaded_file, company_widget,
                           buttons, pending_rerun, job_state, stops, call, key_state>>

\* the provider fails as a whole: the error reaches the page, which reports
\* it and returns
JobFailed ==
    /\ pc = "running"
    /\ ~check_cancel(session_state)
    /\ NextIndex(job.df, job.results) # None
    /\ AnalysisError

\* pickle.dump ends and the file is closed
SaveFinish ==
    /\ pc = "saving"
    /\ files' = DumpDone(files, session_state.analysis_save_path, job.results)
    /\ pc' = "running"
    /\ save_prev' = AbsentBlob
    /\ UNCHANGED <<session_state, uploaded_file, company_widget, buttons,
                   pending_rerun, mtime, job, job_state,
                   stops, call, key_state>>

\* the process dies (or the session is lost): memory is gone, the temp
\* directory stays
Kill ==
    /\ session_state' = InitSession
    /\ uploaded_file' = NoFile
    /\ company_widget' = DEFAULT_COMPANY
    /\ buttons' = {}
    /\ pending_rerun' = FALSE
    /\ pc' = "idle"
    /\ job' = NoJob
    /\ job_state' = IF pc # "idle" THEN "INTERRUPTED" ELSE "IDLE"
    /\ save_prev' = AbsentBlob
    /\ stops' = 0
    /\ UNCHANGED <<files, mtime, call, key_state>>

----------------------------------------------------------------------------
Init ==
    /\ session_state = InitSession
    /\ uploaded_file = NoFile
    /\ company_widget = DEFAULT_COMPANY
    /\ buttons = {}
    /\ pending_rerun = FALSE
    /\ files = [p \in Paths |-> AbsentBlob]
    /\ mtime = [p \in Paths |-> 0]
    /\ pc = "idle"
    /\ job = NoJob
    /\ job_state = "IDLE"
    /\ save_prev = AbsentBlob
    /\ stops = 0
    /\ call = NoCall
    /\ key_state = NoKeys

Next ==
    \/ \E f \in UploadFiles \cup {NoFile} : Upload(f)
    \/ \E c \in Companies : SelectCompany(c)
    \/ \E btn \in Buttons, keyOk \in BOOLEAN : Press(btn, keyOk)
    \/ \E keyOk \in BOOLEAN : Rerun(keyOk)
    \/ JobEntry
    \/ JobComplete
    \/ JobClassify
    \/ JobFailed
    \/ SaveFinish
    \/ AnalysisReturned
    \/ Kill

Spec == Init /\ [][Next]_vars

TypeOK ==
    /\ pc \in {"idle", "entry", "running", "saving", "returned"}
    /\ job_state \in {"IDLE", "RUNNING", "COMPLETED", "CANCELLED", "FAILED", "INTERRUPTED"}
    /\ buttons \subseteq Buttons
    /\ stops \in 0..MaxStops
    /\ session_state.analysis_save_path \in Paths \cup {None}

----------------------------------------------------------------------------
(* Claims *)

SavePath == session_state.analysis_save_path


\* While a job runs the cancellation flag is not set: every pass that calls
\* the job resets it first, and a press of "分析を中断" ends the running job
\* before its pass sets the flag.  No polling point of a job sees the flag.
FlagClearUnderJob == pc # "idle" => ~check_cancel(session_state)

\* the running job was entered through a resume, from a checkpoint
Resumed == ~job.start_analysis /\ job.loaded_count > 0

\* the records loaded from the checkpoint are records of the job's input
LoadedFromInput ==
    \A k \in 1..job.loaded_count :
        /\ k <= Len(job.results)
        /\ \E i \in 1..Len(job.df) :
               /\ job.df[i].src = job.results[k].src
               /\ job.df[i].idx = job.results[k].idx

\* the checkpoint of the session's path was written by a job over the
\* input of the job that is entered
CheckpointOfInput ==
    /\ SavePath # None
    /\ \A k \in 1..Len(files[SavePath].recs) :
           \E i \in 1..Len(job.df) :
               /\ job.df[i].src = files[SavePath].recs[k].src
               /\ job.df[i].idx = files[SavePath].recs[k].idx

DistinctIdx(rows) ==
    \A i, j \in 1..Len(rows) : rows[i].idx = rows[j].idx => i = j

RECURSIVE RunStraight(_, _)
\* the result of a job over df that nothing interrupts: the loop of the job
\* from the result set given, run to its end
RunStraight(df, results) ==
    IF NextIndex(df, results) = None THEN SortByIdx(results)
    ELSE RunStraight(df, Append(results, Classified(df[NextIndex(df, results)])))

Halted == job_state \in {"CANCELLED", "FAILED", "INTERRUPTED"}

\* a pass run now would render "続きから再開": the comment data is in the
\* session and the checkpoint the session finds holds at least one record
WouldOfferResume ==
    /\ session_state.processed_data.present
    /\ ~session_state.analysis_complete
    /\ \E latest \in DiscoverChoices(SavePath, files, mtime) :
           ResumeAvailable(files, DiscoverPath(SavePath, latest))

\* C3 (as claimed): whenever a job was halted and the page is at rest, the
\* comment data and the checkpoint are both there and the resume is offered,
\* without a new upload.
C3_ResumeAlwaysOffered ==
    (Halted /\ pc = "idle" /\ ~pending_rerun) => WouldOfferResume

\* the records and usage a load hands back to a job
Restored(fs, p) ==
    [found |-> LoadCheckpoint(fs, p).found,
     records |-> LoadCheckpoint(fs, p).recs,
     usage |-> LoadedUsage(LoadCheckpoint(fs, p).recs)]

\* C4 (as claimed): at a polling point after a save, a load returns the
\* records and the usage counters the job has just saved; a load of a path
\* that was never saved returns nothing.
C4_SaveLoadRoundTrip ==
    /\ (pc = "running" /\ job.calls > 0)
       => Restored(files, SavePath) =
              [found |-> TRUE, records |-> job.results, usage |-> job.usage]
    /\ \A p \in Paths : ~Exists(files, p) => ~Restored(files, p).found

\* C5 (as claimed): when the process dies during a save, a later load
\* returns what the previous save stored or what this save stores.
C5_SaveAtomic ==
    [][(pc = "saving" /\ pc' = "idle")
        => LoadCheckpoint(files', SavePath) \in
              {LoadCheckpoint([files EXCEPT ![SavePath] = save_prev], SavePath),
               LoadCheckpoint(DumpDone(files, SavePath, job.results), SavePath)}]_vars

CorruptAt(fs, p) == p # None /\ fs[p].kind = "corrupt"

PassInputs ==
    [file : UploadFiles \cup {NoFile}, company : Companies,
     btn : Buttons \cup {"none"}, keyOk : BOOLEAN]

\* what the operator sees of a pass, and the job it starts
Visible(o) ==
    [buttons |-> o.buttons, rerun |-> o.rerun, start |-> o.start, df |-> o.df,
     resume |-> o.ss.analysis_resume, complete |-> o.ss.analysis_complete]

\* C6: when the checkpoint file of the session is unreadable, a load
\* returns nothing, a pass offers exactly what it offers when that file is
\* absent (no resume; the start button; the same job started by it), and a
\* job entered over it starts from an empty result set.
C6_CorruptIsAbsent ==
    [][\A p \in Paths :
        (CorruptAt(files, p) /\ SavePath \in {None, p})
        => /\ ~LoadCheckpoint(files, p).found
           /\ ~ResumeAvailable(files, p)
           /\ pc = "idle"
              => \A i \in PassInputs :
                  \A latest \in DiscoverChoices(SavePath, files, mtime) :
                     LET gone == [files EXCEPT ![p] = AbsentBlob]
                     IN  \E other \in DiscoverChoices(SavePath, gone, mtime) :
                           Visible(ScriptResult(session_state, files, i.file,
                                                i.company, latest, i.btn, i.keyOk))
                           = Visible(ScriptResult(session_state, gone, i.file,
                                                  i.company, other, i.btn, i.keyOk))
           /\ (pc = "idle" /\ ~pending_rerun /\ SavePath = p /\ buttons # {})
              => "start" \in buttons /\ buttons \subseteq {"start", "cancel"}
           /\ (pc = "entry" /\ SavePath = p /\ pc' \notin {"entry", "idle"})
              => /\ job'.results = <<>> /\ job'.loaded_count = 0
                 /\ Len(job.df) > 0 => pc' = "saving"
      ]_vars

\* a fresh start has been entered over a checkpoint file left unreadable
C6_Witness ==
    /\ pc = "saving"
    /\ job.start_analysis /\ ~job.minted
    /\ job.results = <<>>
    /\ save_prev = CorruptBlob

\* C7: clearing removes the checkpoint of the path, touches no other file
\* and raises nothing, whether or not a checkpoint or a path is there; a
\* second clear changes nothing.
C7_ClearIdempotent ==
    \A p \in Paths \cup {None} :
        LET once == ClearCheckpoint(files, p)
            twice == ClearCheckpoint(once.files, p)
        IN  /\ ~once.raised /\ ~twice.raised
            /\ ~Exists(once.files, p)
            /\ twice.files = once.files
            /\ \A q \in Paths : q # p => once.files[q] = files[q]

\* a completed job has cleared its checkpoint, and the session still holds
\* the path of the file that is gone
C7_Witness ==
    /\ job_state = "COMPLETED"
    /\ session_state.analysis_complete
    /\ SavePath # None
    /\ ~Exists(files, SavePath)


----------------------------------------------------------------------------
(* The search for a save file, over every content of the temp directory *)

\* a new session in a temp directory that holds the save files other
\* sessions left behind
InitDiscovery ==
    /\ session_state = InitSession
    /\ uploaded_file = NoFile
    /\ company_widget = DEFAULT_COMPANY
    /\ buttons = {}
    /\ pending_rerun = FALSE
    /\ files \in [Paths -> {AbsentBlob, CorruptBlob, ListBlob(<<>>)}]
    /\ mtime \in [Paths -> 1..MaxMtime]
    /\ pc = "idle"
    /\ job = NoJob
    /\ job_state = "IDLE"
    /\ save_prev = AbsentBlob
    /\ stops = 0
    /\ call = NoCall
    /\ key_state = NoKeys

NextDiscovery == \E f \in UploadFiles \cup {NoFile} : Upload(f)

SpecDiscovery == InitDiscovery /\ [][NextDiscovery]_vars

AnyFile == \E p \in Paths : Exists(files, p)

\* C8: a script run of a session that knows no checkpoint path sets the
\* path, if at all, to a save file whose modification time no other save
\* file exceeds; a run that reaches the buttons of the analysis section has
\* searched, and has set the path when there is a save file; when there is
\* no save file the path stays unset.
C8_DiscoverLatest ==
    [][SavePath = None
        => /\ SavePath' # None
              => /\ Exists(files, SavePath')
                 /\ \A q \in Paths : Exists(files, q) => mtime[q] <= mtime[SavePath']
           /\ (buttons = {} /\ buttons' # {} /\ AnyFile) => SavePath' # None
           /\ ~AnyFile => SavePath' = None]_vars

\* the search has chosen the later of two save files
C8_Witness ==
    /\ session_state.processed_data.present
    /\ SavePath # None
    /\ buttons # {}
    /\ \E q \in Paths : q # SavePath /\ Exists(files, q) /\ mtime[q] < mtime[SavePath]

\* C9 (as claimed): a job started with "分析を開始" runs under a path minted
\* for it and begins from an empty result set.
C9_FreshStartIsFresh ==
    (pc # "idle" /\ job.start_analysis)
    => /\ job.minted
       /\ job.loaded_count = 0

\* the tokens charged for the records of a result set
Cost(rows) ==
    Cardinality({k \in 1..Len(rows) : rows[k].cat = "classified"})
    * (PromptPerCall + CompletionPerCall)

\* C10 (as claimed): a resume does not reset the usage counters, and the
\* totals reported when a job completes include the usage of every record
\* of its result, those classified before an interruption too.
C10_UsageSurvivesResume ==
    /\ (pc = "running" /\ Resumed /\ LoadedFromInput)
       => job.usage.total_tokens >= Cost(SubSeq(job.results, 1, job.loaded_count))
    /\ (job_state = "COMPLETED" /\ session_state.analysis_complete)
       => session_state.api_usage.total_tokens
              = Cost(session_state.processed_data.rows)

\* the step is the completion of analyze_all_comments: the job returns
Completes == pc \in {"entry", "running"} /\ pc' = "returned"

\* the step is a script run in which "最初から開始", a button of the page,
\* was pressed: it leaves the session and the temp directory as one of the
\* stages of that run does
RestartStep ==
    /\ Interactive /\ ~pending_rerun
    /\ "restart" \in buttons
    /\ uploaded_file' = uploaded_file
    /\ company_widget' = company_widget
    /\ \E keyOk \in BOOLEAN :
        \E latest \in DiscoverChoices(SavePath, files, mtime) :
           LET stages == Stages(session_state, files, uploaded_file,
                                company_widget, latest, "restart", keyOk)
           IN  \E k \in 1..Len(stages) :
                   /\ session_state' = stages[k].ss
                   /\ files' = stages[k].files

Invalid(f) ==
    /\ f # NoFile
    /\ (~f.cols_ok \/ (f.schema = "inserted_at" /\ f.rows = 0))

\* C15: a pass over an uploaded file that fails validation ends at the
\* error: it starts no job, mints no checkpoint path, writes no checkpoint,
\* renders no button and leaves processed_data (and the rest of the
\* session) as it was; no job runs while such a file is in the uploader and
\* no row of processed_data comes from such a file.
C15_InvalidUploadAborts ==
    [][/\ (pc = "idle" /\ Invalid(uploaded_file'))
          => /\ pc' = "idle"
             /\ job' = NoJob
             /\ job_state' = job_state
             /\ session_state' = session_state
             /\ files' = files
             /\ mtime' = mtime
             /\ buttons' = {}
             /\ ~pending_rerun'
       /\ Invalid(uploaded_file') => pc' = "idle"
       /\ \A k \in 1..Len(session_state'.processed_data.rows) :
              ~Invalid(session_state'.processed_data.rows[k].src)
      ]_vars

\* an invalid file was dropped on a session that holds comment data and a
\* pending resume of a failed job: the data is kept and nothing started
C15_Witness ==
    /\ Invalid(uploaded_file)
    /\ session_state.processed_data.present
    /\ Len(session_state.processed_data.rows) = MaxRows
    /\ session_state.analysis_resume
    /\ job_state = "FAILED"
    /\ pc = "idle"

\* C16 (as claimed): whatever the schema, an upload with no usable comment
\* row is rejected: processed_data never holds an empty record set, and no
\* job runs on one.
C16_EmptyUploadRejected ==
    /\ session_state.processed_data.present
       => Len(session_state.processed_data.rows) > 0
    /\ pc # "idle" => Len(job.df) > 0

\* C17 (as claimed): a job entered on an input of no record ends COMPLETED
\* at once, with an empty result, zero usage and no checkpoint file created,
\* and no error, the progress callback called with a total of 0 included.
C17_ZeroRecordJob ==
    [][(pc = "entry" /\ Len(job.df) = 0 /\ pc' = "idle"
        /\ job_state' # "INTERRUPTED")
        => /\ ~update_progress(0, Len(job.df)).raised
           /\ job_state' = "COMPLETED"
           /\ session_state'.analysis_complete
           /\ session_state'.processed_data = DF(<<>>)
           /\ session_state'.api_usage = ZeroUsage
           /\ \A p \in Paths : Exists(files', p) => Exists(files, p)]_vars

----------------------------------------------------------------------------
(* detect_header_row, called on its own *)

\* the lines detect_header_row looks at (its max_rows), scaled down
MaxScan == 2

REQUIRED_COLUMNS == <<"guest_id", "username", "original_text", "inserted_at">>

\* A line of text is a sequence of tokens: a column name or other word, a
\* blank, or a comma.  Words next to each other make one longer word.
Blank == " "

Comma == ","

RECURSIVE SplitAt(_, _)
\* str.split(sep): the pieces between the separators, at least one
SplitAt(s, sep) ==
    IF \A k \in 1..Len(s) : s[k] # sep
    THEN <<s>>
    ELSE LET k == CHOOSE i \in 1..Len(s) :
                      s[i] = sep /\ \A j \in 1..(i - 1) : s[j] # sep
         IN  <<SubSeq(s, 1, k - 1)>> \o SplitAt(SubSeq(s, k + 1, Len(s)), sep)

\* line.split(',')
Split(line) == SplitAt(line, Comma)

\* a strip that leaves the blanks
Strip_Kept(col) == col

RECURSIVE Strip(_)
\* col.strip(): without the blanks at both ends
Strip(col) ==
    IF col = <<>> THEN col
    ELSE IF Head(col) = Blank THEN Strip(Tail(col))
    ELSE IF col[Len(col)] = Blank THEN Strip(SubSeq(col, 1, Len(col) - 1))
    ELSE col

\* columns = [col.strip() for col in line.split(',')]
Columns(line) == [k \in 1..Len(Split(line)) |-> Strip(Split(line)[k])]

\* all(col in columns for col in required_columns)
AllIn(required_columns, columns) ==
    \A r \in 1..Len(required_columns) :
        \E k \in 1..Len(columns) : columns[k] = <<required_columns[r]>>

RECURSIVE ScanLines(_, _, _, _)
\* for row_idx, line in enumerate(f): ...
ScanLines(lines, row_idx, required_columns, max_rows) ==
    IF row_idx >= Len(lines) THEN 0
    ELSE IF row_idx >= max_rows THEN 0
    ELSE IF AllIn(required_columns, Columns(lines[row_idx + 1])) THEN row_idx
    ELSE ScanLines(lines, row_idx + 1, required_columns, max_rows)

\* detect_header_row: a file that cannot be opened or decoded gives 0
detect_header_row(file, required_columns, max_rows) ==
    IF ~file.readable THEN 0
    ELSE ScanLines(file.lines, 0, required_columns, max_rows)

RECURSIVE Join(_)
\* the cells of a line, with commas between them
Join(cells) ==
    IF Len(cells) = 0 THEN <<>>
    ELSE IF Len(cells) = 1 THEN cells[1]
    ELSE cells[1] \o <<Comma>> \o Join(Tail(cells))

\* the lines the files of this check are made of
HeaderLines ==
    {Join(<<<<"guest_id">>, <<"username">>, <<"original_text">>, <<"inserted_at">>>>),
     Join(<<<<"memo">>, <<"inserted_at">>, <<"original_text">>, <<"username">>, <<"guest_id">>>>),
     Join(<<<<Blank, "guest_id", Blank>>, <<"username", Blank>>, <<Blank, "original_text">>,
            <<"inserted_at", Blank>>>>),
     Join(<<<<"guest_id">>, <<"username">>, <<"original_text">>>>),
     Join(<<<<"guest_id", "memo">>, <<"username">>, <<"original_text">>, <<"inserted_at">>>>),
     <<"guest_id", "username", "original_text", "inserted_at">>,
     <<>>}

RECURSIVE SeqsUpTo(_, _)
\* the sequences over S of length n at most
SeqsUpTo(S, n) ==
    IF n = 0 THEN {<<>>}
    ELSE SeqsUpTo(S, n - 1) \cup
         {Append(s, x) : s \in {t \in SeqsUpTo(S, n - 1) : Len(t) = n - 1}, x \in S}

HeaderFiles ==
    [readable : BOOLEAN, lines : SeqsUpTo(HeaderLines, MaxScan + 1)]

InitQuiet ==
    /\ session_state = InitSession
    /\ uploaded_file = NoFile
    /\ company_widget = DEFAULT_COMPANY
    /\ buttons = {}
    /\ pending_rerun = FALSE
    /\ files = [p \in Paths |-> AbsentBlob]
    /\ mtime = [p \in Paths |-> 0]
    /\ pc = "idle"
    /\ job = NoJob
    /\ job_state = "IDLE"
    /\ save_prev = AbsentBlob
    /\ stops = 0

Quiet ==
    UNCHANGED <<session_state, uploaded_file, company_widget, buttons,
                pending_rerun, files, mtime, pc, job, job_state, save_prev, stops>>

InitHeader ==
    /\ InitQuiet
    /\ call \in {[fn |-> "detect_header_row", file |-> f, done |-> FALSE,
                   result |-> 0] : f \in HeaderFiles}
    /\ key_state = NoKeys

DetectHeaderRow ==
    /\ call.fn = "detect_header_row"
    /\ ~call.done
    /\ call' = [call EXCEPT !.done = TRUE,
                            !.result = detect_header_row(call.file,
                                                         REQUIRED_COLUMNS, MaxScan)]
    /\ Quiet
    /\ UNCHANGED key_state

NextHeader == DetectHeaderRow

SpecHeader == InitHeader /\ [][NextHeader]_vars

\* the word w stands alone, blanks aside, between two commas (or line ends)
\* of the line
CellOf(line, w) ==
    \E a \in 1..Len(line) :
        /\ line[a] = w
        /\ \E lo \in 1..a, hi \in a..Len(line) :
               /\ lo = 1 \/ line[lo - 1] = Comma
               /\ hi = Len(line) \/ line[hi + 1] = Comma
               /\ \A k \in lo..hi : k # a => line[k] = Blank

\* the line holds every required column name
IsHeader(line) ==
    \A r \in 1..Len(REQUIRED_COLUMNS) : CellOf(line, REQUIRED_COLUMNS[r])

\* C18: detect_header_row returns the index of the first line, among the
\* first max_rows lines, whose comma-separated stripped cells contain every
\* required column name, and 0 when there is no such line among them or the
\* file cannot be read.
C18_DetectHeaderRow ==
    (call.fn = "detect_header_row" /\ call.done)
    => LET lines == call.file.lines
           hits == {i \in 0..(Len(lines) - 1) :
                        i < MaxScan /\ IsHeader(lines[i + 1])}
       IN  IF call.file.readable /\ hits # {}
           THEN call.result \in hits /\ \A i \in hits : call.result <= i
           ELSE call.result = 0

\* the header, written with blanks around its names, is the second line of
\* a file whose first line lacks a column and whose third line is a header
\* too
C18_Witness ==
    /\ call.fn = "detect_header_row"
    /\ call.done
    /\ call.result = 1
    /\ Len(call.file.lines) = 3
    /\ ~IsHeader(call.file.lines[1])
    /\ call.file.lines[2][1] = Blank
    /\ IsHeader(call.file.lines[3])

----------------------------------------------------------------------------
(* The data table of generate_completed_csv, called on its own *)

\* greatest number of rows of the table
MaxTable == 3

\* A display time is a sequence of characters: digits, colons, others.
Colon == ":"

DigitChars == <<"0", "1", "2", "3", "4", "5", "6", "7", "8", "9">>

Digits == {DigitChars[k] : k \in 1..Len(DigitChars)}

DigitValue(c) == (CHOOSE k \in 1..Len(DigitChars) : DigitChars[k] = c) - 1

Plus == "+"

Minus == "-"

Underscore == "_"

\* what int() reads the digits from: the part without the blanks around it
\* and without its sign
Unsigned(part) ==
    LET s == Strip(part)
    IN  IF s # <<>> /\ Head(s) \in {Plus, Minus} THEN Tail(s) ELSE s

\* int(part) does not raise ValueError: blanks around, one sign, then
\* digits, with single underscores between digits
IsNumeral(part) ==
    LET d == Unsigned(part)
    IN  /\ d # <<>>
        /\ \A k \in 1..Len(d) : d[k] \in Digits \cup {Underscore}
        /\ d[1] \in Digits
        /\ d[Len(d)] \in Digits
        /\ \A k \in 1..(Len(d) - 1) :
               d[k] = Underscore => d[k + 1] # Underscore

RECURSIVE DecimalValue(_)
\* the number written by digits, the underscores between them skipped
DecimalValue(d) ==
    IF d = <<>> THEN 0
    ELSE IF d[Len(d)] = Underscore
    THEN DecimalValue(SubSeq(d, 1, Len(d) - 1))
    ELSE DecimalValue(SubSeq(d, 1, Len(d) - 1)) * 10 + DigitValue(d[Len(d)])

\* int(part), for a part it accepts
int(part) ==
    LET s == Strip(part)
    IN  IF s # <<>> /\ Head(s) = Minus
        THEN 0 - DecimalValue(Unsigned(part))
        ELSE DecimalValue(Unsigned(part))

\* a valuation that drops the seconds of HH:MM:SS
parse_time_NoSeconds(time_str) ==
    LET parts == SplitAt(time_str, Colon)
    IN  IF Len(parts) >= 2 /\ IsNumeral(parts[1]) /\ IsNumeral(parts[2])
        THEN int(parts[1]) * 3600 + int(parts[2]) * 60
        ELSE 0

\* parse_time: int() of a part that is not a number raises ValueError, which
\* gives 0
parse_time(time_str) ==
    LET parts == SplitAt(time_str, Colon)
    IN  IF Len(parts) >= 3
        THEN IF IsNumeral(parts[1]) /\ IsNumeral(parts[2]) /\ IsNumeral(parts[3])
             THEN int(parts[1]) * 3600 + int(parts[2]) * 60
                  + int(parts[3])
             ELSE 0
        ELSE IF Len(parts) = 2
        THEN IF IsNumeral(parts[1]) /\ IsNumeral(parts[2])
             THEN int(parts[1]) * 3600 + int(parts[2]) * 60
             ELSE 0
        ELSE 0

\* output_df.sort_values('_sort_time', ascending=True): the rows in an order
\* in which _sort_time never decreases; the order of rows of equal
\* _sort_time is left to the sorting algorithm
SortValues(table) ==
    LET n == Len(table)
        perms == {f \in [1..n -> 1..n] : \A i, j \in 1..n : f[i] = f[j] => i = j}
    IN  {[k \in 1..n |-> table[f[k]]] :
            f \in {g \in perms :
                      \A i, j \in 1..n :
                          i < j => parse_time(table[g[i]].time)
                                   <= parse_time(table[g[j]].time)}}

\* the display times of this check: 00:01, 01:00, 00:00:59, 00:00:30,
\* three that are no time (a word, a word for the minutes, a lone number),
\* three whose numbers int() reads although they are not plain digits (a
\* blank in front, a minus sign, an underscore between two digits), and two
\* of four parts (00:02:00:00, and 00:01:30 followed by a word)
DisplayTimes ==
    {<<"0", "0", Colon, "0", "1">>,
     <<"0", "1", Colon, "0", "0">>,
     <<"0", "0", Colon, "0", "0", Colon, "5", "9">>,
     <<"0", "0", Colon, "0", "0", Colon, "3", "0">>,
     <<"x">>,
     <<"0", "0", Colon, "x">>,
     <<"5">>,
     <<Blank, "1", Colon, "0", "0">>,
     <<Minus, "1", Colon, "0", "0">>,
     <<"0", Colon, "1", Underscore, "0">>,
     <<"0", "0", Colon, "0", "2", Colon, "0", "0", Colon, "0", "0">>,
     <<"0", "0", Colon, "0", "1", Colon, "3", "0", Colon, "x">>}

\* the tables: row k of the input carries its position
ReportTables ==
    {[k \in 1..Len(ts) |-> [idx |-> k, time |-> ts[k]]] :
        ts \in SeqsUpTo(DisplayTimes, MaxTable)}

InitReport ==
    /\ InitQuiet
    /\ call \in {[fn |-> "generate_completed_csv", table |-> t, done |-> FALSE,
                   result |-> <<>>] : t \in ReportTables}
    /\ key_state = NoKeys

GenerateCompletedCsv ==
    /\ call.fn = "generate_completed_csv"
    /\ ~call.done
    /\ \E sorted \in SortValues(call.table) :
           call' = [call EXCEPT !.done = TRUE, !.result = sorted]
    /\ Quiet
    /\ UNCHANGED key_state

NextReport == GenerateCompletedCsv

SpecReport == InitReport /\ [][NextReport]_vars

\* the positions of the colons of a display time
Colons(t) == {k \in 1..Len(t) : t[k] = Colon}

\* the number written by the tokens from position a to position b
Number(t, a, b) == int(SubSeq(t, a, b))

\* the tokens from position a to position b write a whole number
Numeric(t, a, b) == a <= b /\ IsNumeral(SubSeq(t, a, b))

\* the value the claim gives a display time: HH:MM, HH:MM:SS, or no time
DisplayValue(t) ==
    IF Cardinality(Colons(t)) = 1
    THEN LET c == CHOOSE k \in Colons(t) : TRUE
         IN  IF Numeric(t, 1, c - 1) /\ Numeric(t, c + 1, Len(t))
             THEN Number(t, 1, c - 1) * 3600 + Number(t, c + 1, Len(t)) * 60
             ELSE 0
    ELSE IF Cardinality(Colons(t)) = 2
    THEN LET c == CHOOSE k \in Colons(t) : \A m \in Colons(t) : k <= m
             d == CHOOSE k \in Colons(t) : \A m \in Colons(t) : m <= k
         IN  IF Numeric(t, 1, c - 1) /\ Numeric(t, c + 1, d - 1)
                /\ Numeric(t, d + 1, Len(t))
             THEN Number(t, 1, c - 1) * 3600 + Number(t, c + 1, d - 1) * 60
                  + Number(t, d + 1, Len(t))
             ELSE 0
    ELSE 0

\* C19 (as claimed): the data table of the report holds every input row
\* exactly once, in an order in which the display time never decreases,
\* HH:MM being valued hours*3600 + minutes*60, HH:MM:SS that plus the
\* seconds, and anything else 0.
C19_ReportSortedByTime ==
    (call.fn = "generate_completed_csv" /\ call.done)
    => /\ Len(call.result) = Len(call.table)
       /\ \A k \in 1..Len(call.table) :
              Cardinality({m \in 1..Len(call.result) :
                              call.result[m] = call.table[k]}) = 1
       /\ \A i, j \in 1..Len(call.result) :
              i < j => DisplayValue(call.result[i].time)
                       <= DisplayValue(call.result[j].time)

\* the position of the n-th colon of a display time
NthColon(t, n) ==
    CHOOSE k \in Colons(t) : Cardinality({m \in Colons(t) : m <= k}) = n

\* the value of a display time by its parts: what stands before the first
\* colon counts as hours and what follows it, up to the second colon, as
\* minutes; with a second colon, what follows that, up to the third colon,
\* counts as seconds, and whatever comes after a third colon is not read;
\* 0 without a colon, or when one of the parts read is no whole number
PartsValue(t) ==
    IF Cardinality(Colons(t)) = 0 THEN 0
    ELSE IF Cardinality(Colons(t)) = 1
    THEN LET c == NthColon(t, 1)
         IN  IF Numeric(t, 1, c - 1) /\ Numeric(t, c + 1, Len(t))
             THEN Number(t, 1, c - 1) * 3600 + Number(t, c + 1, Len(t)) * 60
             ELSE 0
    ELSE LET c == NthColon(t, 1)
             d == NthColon(t, 2)
             e == IF Cardinality(Colons(t)) = 2 THEN Len(t) + 1
                  ELSE NthColon(t, 3)
         IN  IF Numeric(t, 1, c - 1) /\ Numeric(t, c + 1, d - 1)
                /\ Numeric(t, d + 1, e - 1)
             THEN Number(t, 1, c - 1) * 3600 + Number(t, c + 1, d - 1) * 60
                  + Number(t, d + 1, e - 1)
             ELSE 0

\* C19: the data table of the report holds every input row exactly once, in
\* an order in which the display time never decreases, a display time being
\* valued by its first two parts, or its first three when it has three or
\* more, and 0 when it has a single part or a part read is no whole number.
C19_ReportSortedByParts ==
    (call.fn = "generate_completed_csv" /\ call.done)
    => /\ Len(call.result) = Len(call.table)
       /\ \A k \in 1..Len(call.table) :
              Cardinality({m \in 1..Len(call.result) :
                              call.result[m] = call.table[k]}) = 1
       /\ \A i, j \in 1..Len(call.result) :
              i < j => PartsValue(call.result[i].time)
                       <= PartsValue(call.result[j].time)

\* three rows given as 00:02:00:00, 00:01:30 followed by a word, 00:01 come
\* out as 00:01 (60), the time of four parts whose fourth is a word (90),
\* the time of four parts (120)
C19_Witness ==
    /\ call.fn = "generate_completed_csv"
    /\ call.done
    /\ Len(call.table) = 3
    /\ call.table[1].time = <<"0", "0", Colon, "0", "2", Colon, "0", "0", Colon, "0", "0">>
    /\ call.table[2].time = <<"0", "0", Colon, "0", "1", Colon, "3", "0", Colon, "x">>
    /\ call.table[3].time = <<"0", "0", Colon, "0", "1">>
    /\ call.result = <<call.table[3], call.table[2], call.table[1]>>

----------------------------------------------------------------------------
(* The API key: utils/api_key_manager.py *)

\* validate_api_key asks for more than this many characters
MinKeyLength == 20

\* the keys of this check: two well-formed keys, one that is too short and
\* one that does not start with "sk-"
ApiKeys ==
    {[name |-> "keyA", sk |-> TRUE, len |-> MinKeyLength + 1],
     [name |-> "keyB", sk |-> TRUE, len |-> MinKeyLength + 1],
     [name |-> "short", sk |-> TRUE, len |-> MinKeyLength],
     [name |-> "plain", sk |-> FALSE, len |-> MinKeyLength + 1]}

\* `if api_key`: neither None nor the empty string
Truthy(api_key) == api_key # NoKey

\* validate_api_key
validate_api_key(api_key) ==
    Truthy(api_key) /\ api_key.sk /\ api_key.len > MinKeyLength

\* _encode_key: the item written to the local storage
encode_key(api_key) == [kind |-> "b64", key |-> api_key]

\* an item that is not the Base64 text of a key
GarbageItem == [kind |-> "garbage", key |-> NoKey]

StorageItems == {NoItem, GarbageItem} \cup {encode_key(k) : k \in ApiKeys}

\* _set_cached_api_key: the environment variable and the module cache take
\* the key, when there is one
set_cached_api_key(ks, api_key) ==
    IF Truthy(api_key)
    THEN [ks EXCEPT !.env_key = api_key, !.cached_api_key = api_key]
    ELSE ks

\* load_api_key_from_storage: the decoded key (kept in the cache and the
\* environment before anyone validates it), or None when there is no item
\* or _decode_key raises
load_api_key_from_storage(ks) ==
    IF ks.storage.kind = "b64"
    THEN [ks |-> set_cached_api_key(ks, ks.storage.key), key |-> ks.storage.key]
    ELSE [ks |-> ks, key |-> NoKey]

\* get_active_api_key: the state it leaves and the key it returns
get_active_api_key(ks) ==
    IF Truthy(ks.cached_api_key) /\ validate_api_key(ks.cached_api_key)
    THEN [ks |-> ks, key |-> ks.cached_api_key]
    ELSE IF Truthy(ks.env_key) /\ validate_api_key(ks.env_key)
    THEN [ks |-> set_cached_api_key(ks, ks.env_key), key |-> ks.env_key]
    ELSE IF Truthy(ks.user_api_key) /\ validate_api_key(ks.user_api_key)
    THEN [ks |-> set_cached_api_key(ks, ks.user_api_key), key |-> ks.user_api_key]
    ELSE LET loaded == load_api_key_from_storage(ks)
         IN  IF Truthy(loaded.key) /\ validate_api_key(loaded.key)
             THEN [ks |-> [set_cached_api_key(loaded.ks, loaded.key)
                              EXCEPT !.user_api_key = loaded.key],
                   key |-> loaded.key]
             ELSE [ks |-> loaded.ks, key |-> NoKey]

\* the page and its files stay as they are
PageUnchanged ==
    UNCHANGED <<session_state, uploaded_file, company_widget, buttons,
                pending_rerun, files, mtime, pc, job, job_state, save_prev, stops,
                call>>

\* The script run of a handler of the sidebar is stopped, as any script run,
\* where it calls st or reaches for st.session_state once the operator has
\* touched a widget again: it leaves the key as it is at that point, and
\* the page it was rendering is not shown.
Stopped(ks) ==
    [ks EXCEPT !.returned = NoKey, !.op = "stopped", !.submitting = NoSubmit,
               !.getting = NoGet]

\* get_active_api_key goes on to the session: neither the cache nor the
\* environment holds a valid key
ReachesSession(ks) ==
    /\ ~(Truthy(ks.cached_api_key) /\ validate_api_key(ks.cached_api_key))
    /\ ~(Truthy(ks.env_key) /\ validate_api_key(ks.env_key))

\* the call has returned api_key to render_api_key_input
Returned(ks, api_key) ==
    [ks EXCEPT !.returned = api_key, !.op = "get", !.getting = NoGet]

\* render_api_key_input asks for the active key.  get_active_api_key reads
\* the cache and the environment first: a valid key there is returned at
\* once.  Otherwise the call reaches for st.session_state, where the script
\* thread can be switched out (a script of another session may run) or
\* stopped.  The run can be stopped before the call and after its return.
GetActiveApiKey ==
    /\ key_state.submitting = NoSubmit
    /\ key_state.getting = NoGet
    /\ \/ key_state' =
              IF ReachesSession(key_state)
              THEN [key_state EXCEPT !.returned = NoKey, !.op = "getting",
                                     !.getting = [stored_key |-> NoKey,
                                                  at |-> "session"]]
              ELSE Returned(get_active_api_key(key_state).ks,
                            get_active_api_key(key_state).key)
       \/ key_state' = Stopped(key_state)
       \/ /\ ~ReachesSession(key_state)
          /\ key_state' = Stopped(get_active_api_key(key_state).ks)
    /\ PageUnchanged

\* get_active_api_key from its look at the session on, the cache and the
\* environment being read already: a valid key of the session goes to the
\* cache and the environment and is returned; otherwise
\* load_api_key_from_storage reads the item of the browser (the decoded key
\* goes to the cache and the environment), and a valid key it gives is on
\* its way to st.session_state.user_api_key
GetActiveSession ==
    /\ key_state.getting.at = "session"
    /\ LET ks == key_state
           loaded == load_api_key_from_storage(ks)
       IN  \/ key_state' =
                  IF Truthy(ks.user_api_key) /\ validate_api_key(ks.user_api_key)
                  THEN Returned(set_cached_api_key(ks, ks.user_api_key),
                                ks.user_api_key)
                  ELSE IF Truthy(loaded.key) /\ validate_api_key(loaded.key)
                  THEN [loaded.ks EXCEPT !.getting = [stored_key |-> loaded.key,
                                                      at |-> "assign"]]
                  ELSE Returned(loaded.ks, NoKey)
           \/ key_state' = Stopped(ks)
           \/ /\ Truthy(ks.user_api_key) /\ validate_api_key(ks.user_api_key)
              /\ key_state' = Stopped(set_cached_api_key(ks, ks.user_api_key))
           \/ /\ ~(Truthy(ks.user_api_key) /\ validate_api_key(ks.user_api_key))
              /\ ~(Truthy(loaded.key) /\ validate_api_key(loaded.key))
              /\ key_state' = Stopped(loaded.ks)
    /\ PageUnchanged

\* get_active_api_key with the key of the browser in hand: the session
\* takes it, then the cache and the environment, and it is returned
GetActiveStored ==
    /\ key_state.getting.at = "assign"
    /\ LET ks == key_state
           done == set_cached_api_key(
                       [ks EXCEPT !.user_api_key = ks.getting.stored_key],
                       ks.getting.stored_key)
       IN  \/ key_state' = Returned(done, ks.getting.stored_key)
           \/ key_state' = Stopped(ks)
           \/ key_state' = Stopped(done)
    /\ PageUnchanged

\* where the script run of a submit can be stopped before it reaches the
\* local storage: before st.session_state.user_api_key is assigned, between
\* that and _set_cached_api_key (show_api_key_form is assigned in between),
\* and after _set_cached_api_key
SubmitStops(ks, api_key) ==
    {ks,
     [ks EXCEPT !.user_api_key = api_key],
     set_cached_api_key([ks EXCEPT !.user_api_key = api_key], api_key)}

\* "APIキーを設定" with a key of valid form: the session, then the cache and
\* the environment take the key; with "このブラウザに記憶する" the item is written to
\* the browser and the script waits for the write, without it the script
\* waits before it runs the page again
SubmitApiKey(api_key, remember_key) ==
    /\ key_state.submitting = NoSubmit
    /\ key_state.getting = NoGet
    /\ key_state.op = "get"
    /\ validate_api_key(api_key)
    /\ \/ LET ks1 == set_cached_api_key(
                         [key_state EXCEPT !.user_api_key = api_key], api_key)
          IN  key_state' =
                  IF remember_key
                  THEN [ks1 EXCEPT !.storage = encode_key(api_key),
                                   !.submitting = [api_key |-> api_key,
                                                   at |-> "stored"],
                                   !.op = "submit"]
                  ELSE [ks1 EXCEPT !.submitting = [api_key |-> api_key,
                                                   at |-> "set"],
                                   !.op = "submit"]
       \/ \E ks \in SubmitStops(key_state, api_key) : key_state' = Stopped(ks)
    /\ PageUnchanged

\* save_api_key_to_storage after its wait: the cache and the environment
\* take the key once more, and the script waits before it runs the page again
SaveApiKeyCached ==
    /\ key_state.submitting # NoSubmit
    /\ key_state.submitting.at = "stored"
    /\ key_state' = [set_cached_api_key(key_state, key_state.submitting.api_key)
                        EXCEPT !.submitting.at = "set"]
    /\ PageUnchanged

\* the submit's st.rerun() after its wait, or the end of its script run
\* where it reports the outcome
SubmitRerun ==
    /\ key_state.submitting # NoSubmit
    /\ key_state.submitting.at = "set"
    /\ key_state' = [key_state EXCEPT !.submitting = NoSubmit]
    /\ PageUnchanged

\* a script of another session of the process runs _set_cached_api_key, for
\* a key it was given or found in its browser: the cache and the environment
\* belong to the process, the session and the browser do not
OtherSessionSetsKey(api_key) ==
    /\ key_state' = [set_cached_api_key(key_state, api_key) EXCEPT
                        !.op = "other"]
    /\ PageUnchanged

\* where the script run of a deletion can be stopped: before
\* st.session_state.user_api_key is assigned, between that and
\* delete_api_key_from_storage, and after it
DeleteStops(ks) ==
    {ks,
     [ks EXCEPT !.user_api_key = NoKey],
     [ks EXCEPT !.user_api_key = NoKey, !.storage = NoItem]}

\* "削除", rendered when there is an active key and a key in the session:
\* the key of the session is dropped, then the item of the browser
DeleteApiKey ==
    /\ key_state.submitting = NoSubmit
    /\ key_state.getting = NoGet
    /\ key_state.op = "get"
    /\ Truthy(key_state.returned)
    /\ key_state.user_api_key # NoKey
    /\ \/ key_state' = [key_state EXCEPT !.user_api_key = NoKey,
                                         !.storage = NoItem,
                                         !.op = "delete"]
       \/ \E ks \in DeleteStops(key_state) : key_state' = Stopped(ks)
    /\ PageUnchanged

\* another session of the same process begins, in a browser of its own
NewSession(item) ==
    /\ key_state.submitting = NoSubmit
    /\ key_state.getting = NoGet
    /\ key_state.op = "get"
    /\ key_state' = [key_state EXCEPT !.user_api_key = NoKey,
                                      !.storage = item,
                                      !.returned = NoKey,
                                      !.op = "session"]
    /\ PageUnchanged

\* a process starts with or without OPENAI_API_KEY in its environment, in
\* front of a browser that may remember a key
InitApiKey ==
    /\ InitQuiet
    /\ call = NoCall
    /\ key_state \in {[NoKeys EXCEPT !.env_key = e, !.storage = item] :
                         e \in ApiKeys \cup {NoKey}, item \in StorageItems}

NextApiKey ==
    \/ GetActiveApiKey
    \/ GetActiveSession
    \/ GetActiveStored
    \/ \E k \in ApiKeys, remember_key \in BOOLEAN : SubmitApiKey(k, remember_key)
    \/ SaveApiKeyCached
    \/ SubmitRerun
    \/ \E k \in ApiKeys : OtherSessionSetsKey(k)
    \/ DeleteApiKey
    \/ \E item \in StorageItems : NewSession(item)

SpecApiKey == InitApiKey /\ [][NextApiKey]_vars

\* the key the documented order of priority gives: the session's key, else
\* the key remembered in the browser, else the environment variable
DocumentedKey(ks) ==
    IF validate_api_key(ks.user_api_key) THEN ks.user_api_key
    ELSE IF ks.storage.kind = "b64" /\ validate_api_key(ks.storage.key)
    THEN ks.storage.key
    ELSE IF validate_api_key(ks.env_key) THEN ks.env_key
    ELSE NoKey

\* C20 (as claimed): get_active_api_key returns the valid key of the
\* session before the one remembered in the browser, and the environment
\* variable only when neither of the two gives a valid key.
C20_KeyPriority ==
    [][key_state'.op = "get" => key_state'.returned = DocumentedKey(key_state)]_vars

----------------------------------------------------------------------------
(* Claims on the page, continued *)

\* the step is the loss of the session (the process died)
SessionLost == session_state' = InitSession /\ buttons' = {} /\ pc' = "idle"

\* C21 (as claimed): a step in which the company of the session changes
\* leaves the session with the company of the selectbox, analysis_complete
\* false and stats_data, question_stats_data, question_df_data and
\* csv_completed_data cleared, and with processed_data, the checkpoint path
\* and the usage counters as they were; and the company selection branch
\* run with the company the session holds changes nothing.
C21_CompanyChangeFrame ==
    [][/\ (session_state'.selected_company # session_state.selected_company
           /\ ~SessionLost)
          => /\ session_state'.selected_company = company_widget'
             /\ ~session_state'.analysis_complete
             /\ ~session_state'.stats_data
             /\ ~session_state'.question_stats_data
             /\ ~session_state'.question_df_data
             /\ ~session_state'.csv_completed_data
             /\ session_state'.processed_data = session_state.processed_data
             /\ session_state'.analysis_save_path = session_state.analysis_save_path
             /\ session_state'.api_usage = session_state.api_usage
       /\ CompanyBranch(Outcome(session_state, files, {}, FALSE, FALSE),
                        session_state.selected_company) = <<>>
      ]_vars

\* C22 (as claimed): a job that was cancelled or interrupted is entered
\* again only by an explicit press of start or resume.  The pass that stops
\* a job under way (the press of "分析を中断", or any other widget touched
\* while the job runs) is the script run that follows the cancellation: it
\* calls the classification only when "分析を開始" was pressed in it, whether
\* the stopped run had been started fresh or through a resume.  (A press of
\* "続きから再開" ends its pass with st.rerun() and enters no job itself.)
C22_NoAutomaticReentry ==
    [][(pc # "idle" /\ pc' = "entry") => job'.start_analysis]_vars

\* C23 (as claimed): the cancellation flag, once set, goes back to false
\* only in the step in which a running job observes it and stops; and a
\* pass in which "分析を中断" is pressed, on a page at rest or on a running
\* job, ends with the flag set, whatever else the pass does.
C23_CancelNeverDiscarded ==
    [][/\ (session_state.analysis_cancelled /\ ~session_state'.analysis_cancelled
           /\ ~SessionLost)
          => (pc = "running" /\ job_state' = "CANCELLED")
       /\ (pc # "saving" /\ ~pending_rerun /\ "cancel" \in buttons)
          => \A keyOk \in BOOLEAN :
                 \A latest \in DiscoverChoices(SavePath, files, mtime) :
                     ScriptResult(session_state, files, uploaded_file,
                                  company_widget, latest, "cancel", keyOk)
                         .ss.analysis_cancelled
      ]_vars


\* C24: a classification begun with "分析を開始" works on the comment set
\* held in processed_data, the one of the latest upload, and not on an
\* analysis_original_df retained from an earlier job.
C24_FreshStartUsesCurrentData ==
    (pc # "idle" /\ job.start_analysis)
        => job.df = session_state.processed_data.rows


\* the records are records of the rows: same upload, same row
RecordsOf(recs, rows) ==
    \A k \in 1..Len(recs) :
        \E i \in 1..Len(rows) :
            /\ rows[i].src = recs[k].src
            /\ rows[i].idx = recs[k].idx

\* C25: a checkpoint is offered for resumption, and merged by a job, only
\* with the record set of the job that wrote it: the saved records behind a
\* resume offer are records of the data a resume would classify, and the
\* records a job has loaded are records of its input.
C25_CheckpointMatchesInput ==
    /\ (pc = "idle" /\ "resume" \in buttons)
           => RecordsOf(LoadCheckpoint(files, SavePath).recs,
                        JobInput(session_state,
                                 session_state.processed_data.rows))
    /\ (pc # "idle" /\ job.loaded_count > 0) => LoadedFromInput


\* C26: once a job has COMPLETED, analysis_complete stays true and
\* processed_data keeps the classified result through every later script run
\* for which the same file stays in the uploader and the same company stays
\* selected.
C26_CompletedIsStable ==
    [][(/\ pc = "idle" /\ job_state = "COMPLETED"
        /\ session_state.analysis_complete
        /\ uploaded_file # NoFile
        /\ uploaded_file' = uploaded_file
        /\ company_widget' = company_widget)
        => /\ session_state'.analysis_complete
           /\ session_state'.processed_data = session_state.processed_data
      ]_vars


----------------------------------------------------------------------------
(* Claims on the API key, continued *)

\* C27: after "削除" the deleted key, the one the session held, is no
\* longer active: the call of get_active_api_key that follows the deletion
\* does not return it.
C27_DeletedKeyInactive ==
    [][key_state'.op = "delete"
        => get_active_api_key(key_state').key # key_state.user_api_key]_vars


----------------------------------------------------------------------------
(* extract_questions: utils/csv_processor.py *)

\* the rows of a data frame handed to extract_questions
MaxFrame == 2

\* a missing value (NaN / None) of a cell
NaN == <<"NaN">>

\* astype(str): a missing value becomes the text "nan"
AsStr(v) == IF v = NaN THEN <<"nan">> ELSE v

\* str.lower(), on the words of this check
Lower(v) ==
    [k \in 1..Len(v) |-> IF v[k] \in {"Moderator", "MODERATOR"}
                         THEN "moderator" ELSE v[k]]

\* the guest id of the official account, imported from config
OFFICIAL_GUEST_ID == <<"official-guest">>

\* the username "マツキヨココカラSTAFF"
STAFF_USERNAME == <<"MatsukiyoCocokaraSTAFF">>

\* a comment text is a sequence of words; the words the patterns of
\* is_question_by_pattern look for, written in Latin letters: "です。",
\* "ます！", "となります？"; "何", "どこ"; "？", "?"; "ですか", "でしょうか";
\* "ませんか"
information_providing_patterns == {"desu.", "masu!", "tonarimasu?"}

question_words == {"nani", "doko"}

question_mark_pattern == {"fullwidth?", "?", "tonarimasu?"}

question_end_patterns == {"desuka", "deshouka"}

negative_question_patterns == {"masenka"}

\* re.search(pattern, text) for a pattern without "$"
Search(patterns, text) == \E k \in 1..Len(text) : text[k] \in patterns

\* re.search(pattern, text) for a pattern that ends with "$"
SearchAtEnd(patterns, text) == text # <<>> /\ text[Len(text)] \in patterns

\* is_question_by_pattern
is_question_by_pattern(comment_text) ==
    IF comment_text = NaN \/ comment_text = <<>> THEN FALSE
    ELSE LET text == Strip(comment_text)
         IN  IF text = <<>> THEN FALSE
             ELSE IF SearchAtEnd(information_providing_patterns, text) THEN FALSE
             ELSE IF Search(question_words, text) THEN TRUE
             ELSE IF Search(question_mark_pattern, text) THEN TRUE
             ELSE IF Search(question_end_patterns, text) THEN TRUE
             ELSE IF Search(negative_question_patterns, text) THEN TRUE
             ELSE FALSE

\* what the provider does when is_question_by_ai asks about a text: it
\* answers yes, answers something else, or the call fails (no client, an
\* exception)
AiAnswers == {"yes", "no", "error"}

\* is_question_by_ai, given what the provider does
is_question_by_ai(comment_text, answer) ==
    IF comment_text = NaN \/ comment_text = <<>> THEN FALSE
    ELSE IF Strip(comment_text) = <<>> THEN FALSE
    ELSE IF answer = "error" THEN is_question_by_pattern(Strip(comment_text))
    ELSE answer = "yes"

\* Series.str.contains(r'[？?]', na=False, regex=True)
ContainsQuestionMark(v) == v # NaN /\ Search(question_mark_pattern, v)

RECURSIVE Filter(_, _)
\* df[mask]: the rows of the mask, in their order
Filter(rows, mask) ==
    IF rows = <<>> THEN <<>>
    ELSE IF Head(rows).pos \in mask
    THEN <<Head(rows)>> \o Filter(Tail(rows), mask)
    ELSE Filter(Tail(rows), mask)

\* the rows of a frame, as a set
Rows(rows) == {rows[k] : k \in 1..Len(rows)}

\* the boolean mask that selects the rows of a set
Mask(selected) == {r.pos : r \in selected}

\* "商品への質問"
ATTRIBUTE_PRODUCT == "product_question"

\* "出演者関連"
ATTRIBUTE_PERFORMER == "performer"

\* the columns of a classified frame ("attribute" is "チャットの属性")
ALL_COLUMNS ==
    {"attribute", "original_text", "user_type", "user_id", "guest_id",
     "username"}

\* the removal of the official comments, one filter per column the frame has
NotModerator(r) == Lower(Strip(AsStr(r.user_type))) # <<"moderator">>

NoUserId(r) == r.user_id = NaN \/ Strip(AsStr(r.user_id)) = <<>>

NotOfficialGuest(r) == Strip(AsStr(r.guest_id)) # OFFICIAL_GUEST_ID

NotStaff(r) == Strip(AsStr(r.username)) # STAFF_USERNAME

\* an extraction that keeps the official comments
ExcludeOfficial_Kept(columns, question_df) == question_df

ExcludeOfficial(columns, question_df) ==
    LET q1 == IF "user_type" \in columns
              THEN Filter(question_df,
                  Mask({q \in Rows(question_df) : NotModerator(q)}))
              ELSE question_df
        q2 == IF "user_id" \in columns
              THEN Filter(q1, Mask({q \in Rows(q1) : NoUserId(q)})) ELSE q1
        q3 == IF "guest_id" \in columns
              THEN Filter(q2,
                  Mask({q \in Rows(q2) : NotOfficialGuest(q)})) ELSE q2
    IN  IF "username" \in columns
        THEN Filter(q3, Mask({q \in Rows(q3) : NotStaff(q)})) ELSE q3

\* extract_questions: the rows of the frame it returns
extract_questions(df) ==
    IF df.rows = <<>> THEN <<>>
    ELSE LET IsProduct(r) == r.attribute = ATTRIBUTE_PRODUCT
             IsPerformer(r) == r.attribute = ATTRIBUTE_PERFORMER
             ByPattern(r) == is_question_by_pattern(r.original_text)
             Uncertain(r) == ~ByPattern(r) /\ ContainsQuestionMark(r.original_text)
             ByAi(r) == is_question_by_ai(r.original_text, r.ai)
             product_questions == Filter(df.rows,
                 Mask({q \in Rows(df.rows) : IsProduct(q)}))
             performer_comments == Filter(df.rows,
                 Mask({q \in Rows(df.rows) : IsPerformer(q)}))
             uncertain_comments ==
                 Filter(performer_comments,
                     Mask({q \in Rows(performer_comments) : Uncertain(q)}))
             performer_questions ==
                 IF performer_comments # <<>> /\ "original_text" \in df.columns
                 THEN Filter(performer_comments,
                             Mask({q \in Rows(performer_comments) : ByPattern(q)}))
                      \o Filter(uncertain_comments,
                                Mask({q \in Rows(uncertain_comments) : ByAi(q)}))
                 ELSE <<>>
             question_df == product_questions \o performer_questions
         IN  IF question_df = <<>> THEN question_df
             ELSE ExcludeOfficial(df.columns, question_df)

\* the comment texts of this check (the loaders drop the rows without a
\* text): blank, no question, a question word, a question ending, a
\* negative question, a question mark, a question mark before an informing
\* ending, an informing ending with a question mark, a question word before
\* an informing ending
CommentTexts ==
    {<<Blank>>, <<"x">>, <<"nani", "x">>, <<"x", "desuka">>,
     <<"x", "masenka">>, <<"x", "?">>, <<"fullwidth?", "x", "desu.">>,
     <<"x", "tonarimasu?", Blank>>, <<"doko", "masu!">>}

\* the row of a viewer
ViewerRow(attribute, text, answer) ==
    [pos |-> 0, attribute |-> attribute, original_text |-> text,
     user_type |-> <<"viewer">>, user_id |-> NaN, guest_id |-> <<"g1">>,
     username |-> <<"user">>, ai |-> answer]

\* the rows of this check: viewers' questions and performer comments of
\* every text, two comments of another attribute, the answers of the
\* provider for the texts the heuristic rejects with a question mark in
\* them, and question rows that carry one mark of an official account each
QuestionRows ==
    {ViewerRow(a, t, "no") :
        a \in {ATTRIBUTE_PRODUCT, ATTRIBUTE_PERFORMER}, t \in CommentTexts}
    \cup {ViewerRow("other", t, "no") : t \in {<<"x">>, <<"nani", "x">>}}
    \cup {ViewerRow(ATTRIBUTE_PERFORMER, t, answer) :
            t \in {s \in CommentTexts :
                      ~is_question_by_pattern(s) /\ ContainsQuestionMark(s)},
            answer \in AiAnswers}
    \cup {[ViewerRow(ATTRIBUTE_PERFORMER, <<"fullwidth?", "x", "desu.">>, "yes")
             EXCEPT !.user_type = <<"moderator">>]}
    \cup UNION {
           {[ViewerRow(a, <<"nani", "x">>, "no") EXCEPT !.user_type = v] :
                v \in {<<"moderator">>, <<Blank, "Moderator", Blank>>}}
           \cup {[ViewerRow(a, <<"nani", "x">>, "no") EXCEPT !.user_id = v] :
                v \in {<<"u1">>, <<Blank>>}}
           \cup {[ViewerRow(a, <<"nani", "x">>, "no") EXCEPT !.guest_id = v] :
                v \in {OFFICIAL_GUEST_ID,
                       <<Blank>> \o OFFICIAL_GUEST_ID \o <<Blank>>}}
           \cup {[ViewerRow(a, <<"nani", "x">>, "no") EXCEPT !.username = v] :
                v \in {STAFF_USERNAME, STAFF_USERNAME \o <<Blank>>}} :
           a \in {ATTRIBUTE_PRODUCT, ATTRIBUTE_PERFORMER}}

\* the frames of this check: with every column, without user_type and
\* user_id, and without guest_id as well (the loaders require username and
\* original_text, and guest_id unless the file has an elapsed_time column)
QuestionColumns ==
    {ALL_COLUMNS,
     ALL_COLUMNS \ {"user_type", "user_id"},
     ALL_COLUMNS \ {"user_type", "user_id", "guest_id"}}

QuestionFrames ==
    {[columns |-> c, rows |-> [k \in 1..Len(rs) |-> [rs[k] EXCEPT !.pos = k]]] :
        c \in QuestionColumns, rs \in SeqsUpTo(QuestionRows, MaxFrame)}

InitQuestions ==
    /\ InitQuiet
    /\ call \in {[fn |-> "extract_questions", df |-> d, done |-> FALSE,
                   result |-> <<>>] : d \in QuestionFrames}
    /\ key_state = NoKeys

ExtractQuestions ==
    /\ call.fn = "extract_questions"
    /\ ~call.done
    /\ call' = [call EXCEPT !.done = TRUE, !.result = extract_questions(call.df)]
    /\ Quiet
    /\ UNCHANGED key_state

NextQuestions == ExtractQuestions

SpecQuestions == InitQuestions /\ [][NextQuestions]_vars

\* an official comment: user_type moderator, a user_id that is not empty,
\* the guest id of the official account, or the staff's username, read from
\* the columns the frame has, blanks around a value and the case of the
\* user type set aside
Official(r, columns) ==
    \/ "user_type" \in columns /\ r.user_type # NaN
       /\ Lower(Strip(r.user_type)) = <<"moderator">>
    \/ "user_id" \in columns /\ r.user_id # NaN /\ Strip(r.user_id) # <<>>
    \/ "guest_id" \in columns /\ r.guest_id # NaN
       /\ Strip(r.guest_id) = OFFICIAL_GUEST_ID
    \/ "username" \in columns /\ r.username # NaN
       /\ Strip(r.username) = STAFF_USERNAME

\* C28: extract_questions returns rows of its input, each at most once,
\* every one of attribute "商品への質問" or "出演者関連" and none an
\* official comment; an "出演者関連" row is returned only if the pattern
\* heuristic judges its text a question, or the heuristic rejects it, the
\* text contains a question mark and the AI check judges it a question.
C28_ExtractQuestions ==
    (call.fn = "extract_questions" /\ call.done) =>
        LET rows == call.df.rows
            out == call.result
        IN  /\ \A k \in 1..Len(out) :
                   /\ out[k].pos \in 1..Len(rows)
                   /\ out[k] = rows[out[k].pos]
                   /\ out[k].attribute \in {ATTRIBUTE_PRODUCT, ATTRIBUTE_PERFORMER}
                   /\ ~Official(out[k], call.df.columns)
                   /\ out[k].attribute = ATTRIBUTE_PERFORMER
                          => \/ is_question_by_pattern(out[k].original_text)
                             \/ /\ ~is_question_by_pattern(out[k].original_text)
                                /\ ContainsQuestionMark(out[k].original_text)
                                /\ is_question_by_ai(out[k].original_text, out[k].ai)
            /\ \A j, k \in 1..Len(out) : out[j].pos = out[k].pos => j = k

\* a frame with a moderator's product question and a performer comment that
\* only the AI check takes for a question: the second row alone is returned
C28_Witness ==
    /\ call.fn = "extract_questions"
    /\ call.done
    /\ call.df.columns = ALL_COLUMNS
    /\ Len(call.df.rows) = MaxFrame
    /\ call.df.rows[1].attribute = ATTRIBUTE_PRODUCT
    /\ call.df.rows[1].user_type = <<Blank, "Moderator", Blank>>
    /\ call.df.rows[2].attribute = ATTRIBUTE_PERFORMER
    /\ call.df.rows[2].original_text = <<"x", "tonarimasu?", Blank>>
    /\ call.df.rows[2].ai = "yes"
    /\ call.result = <<call.df.rows[2]>>

====
